---- MODULE Spec2Model ----
(***************************************************************************)
(* PurpleAirSensor (src/src/accessory.ts): the poll scheduler, the rate    *)
(* guard, the StatusActive query handlers, the freshness predicate and the *)
(* HomeKit refresh, as a state machine.                                    *)
(*                                                                         *)
(* An optional value (a TypeScript `T | undefined`) is a sequence of       *)
(* length 0 or 1: undefined is <<>>, a present value v is <<v>>.           *)
(*                                                                         *)
(* Time is in milliseconds.  The clock `now` stands for Date.now(); it     *)
(* moves in steps of ClockStepMs.  Once it has reached MaxTime the origin  *)
(* of the clock slides instead: every stored timestamp is lowered by the   *)
(* time that passes (and kept at 0 once it is MaxTime or more in the       *)
(* past).  The code only ever compares differences of timestamps with      *)
(* MIN_UPDATE_INTERVAL_MS and updateIntervalMs, both at most MaxTime, so   *)
(* every comparison the code makes has the value it has on the real clock. *)
(***************************************************************************)
EXTENDS Integers, Sequences, FiniteSets, TLC

(* ------------------------------ bounds -------------------------------- *)

\* Granularity of the clock, in ms.
ClockStepMs == 30000

\* The clock window is MaxClockSteps steps long.
MaxClockSteps == 11

\* At most this many fetches are awaiting their response in the model: an
\* update() that would issue one more is not taken until one has completed.
MaxInFlight == 2

MaxTime == MaxClockSteps * ClockStepMs

(* ---------------------------- optionals ------------------------------- *)

undefined == <<>>

Some(v) == <<v>>

Get(opt) == opt[1]

Max(a, b) == IF a >= b THEN a ELSE b

Min(a, b) == IF a <= b THEN a ELSE b

(* ---------------------------- constants ------------------------------- *)

DEFAULT_UPDATE_INTERVAL_SECS == 300

MIN_UPDATE_INTERVAL_MS == 30 * 1000

\* The three services whose StatusActive characteristic has a GET handler.
Services == {"airQualityService", "temperatureService", "humidityService"}

(* --------------------------- configuration ---------------------------- *)

\* config.updateIntervalSecs as the host may supply it; 0 stands for a
\* missing (falsy) value.
UpdateIntervalSecsChoices == {0, 15, 45}

LocalIPAddressChoices == {undefined, Some("192.168.1.5")}

\* config.apiReadKey: the PurpleAir API key the cloud wants in a header.
ApiReadKeyChoices == {Some("API-KEY")}

\* config.key: the read key of a private sensor.
KeyChoices == {Some("READ-KEY")}

AqiInsteadOfDensityChoices == {FALSE}

Configs ==
    [ sensor : {"12345"},
      updateIntervalSecs : UpdateIntervalSecsChoices,
      localIPAddress : LocalIPAddressChoices,
      apiReadKey : ApiReadKeyChoices,
      key : KeyChoices,
      aqiInsteadOfDensity : AqiInsteadOfDensityChoices ]

\* Every combination of a configured or missing local address, API key and
\* read key, with either reporting preference, at one update interval.
AllSourceConfigs ==
    [ sensor : {"12345"},
      updateIntervalSecs : {45},
      localIPAddress : {undefined, Some("192.168.1.5")},
      apiReadKey : {undefined, Some("API-KEY")},
      key : {undefined, Some("READ-KEY")},
      aqiInsteadOfDensity : BOOLEAN ]

VARIABLES
    config,        \* lines 53-74: the AccessoryConfig the constructor was given
    now,           \* line 150: Date.now()
    lastReading,   \* line 51: this.lastReading, undefined or Some(SensorReading)
    timer,         \* lines 114-116: when the setInterval callback is next due
    inflight,      \* line 162: requests awaiting their response, in issue order
    host,          \* lines 207-224: the characteristic values set on the services
    ev,            \* what the last handler that ran did
    lastFetchTime, \* history: when the most recent fetch was issued
    latestPending, \* history: the most recently issued fetch is in flight
    lastOutcome    \* history: outcome of the most recently issued fetch

vars == << config, now, lastReading, timer, inflight, host, ev,
           lastFetchTime, latestPending, lastOutcome >>

(* ----------------------------- constructor ---------------------------- *)

\* lines 66-70: a falsy updateIntervalSecs selects the default.
UpdateIntervalMsOf(cfg) ==
    IF cfg.updateIntervalSecs # 0
    THEN cfg.updateIntervalSecs * 1000
    ELSE DEFAULT_UPDATE_INTERVAL_SECS * 1000

updateIntervalMs == UpdateIntervalMsOf(config)

(* ------------------------------- update() ----------------------------- *)

\* lines 130-143 and 156-160: the request update() builds.
RequestOf(cfg) ==
    IF cfg.localIPAddress # undefined
    THEN [ url |-> <<"http://", Get(cfg.localIPAddress), "/json">>,
           usesLocalSensor |-> TRUE,
           xApiKey |-> undefined,
           read_key |-> cfg.key ]
    ELSE [ url |-> <<"https://api.purpleair.com/v1/sensors", "/", cfg.sensor>>,
           usesLocalSensor |-> FALSE,
           xApiKey |-> cfg.apiReadKey,
           read_key |-> cfg.key ]

\* A guard that measures against the configured interval instead.
RateGuardUsesInterval(lr, t) ==
    lr # undefined
    /\ Get(lr).updateTimeMs > t - UpdateIntervalMsOf(config)

\* A guard without the comparison of times.
RateGuardSkipsAnyCached(lr, t) == lr # undefined

\* line 150: the rate guard.
RateGuardSkips(lr, t) ==
    lr # undefined /\ Get(lr).updateTimeMs > t - MIN_UPDATE_INTERVAL_MS

\* The freshness test with the boundary on the wrong side.
LastReadingActiveInclusive(lr, t, intervalMs) ==
    IF lr # undefined THEN Get(lr).updateTimeMs >= t - intervalMs ELSE FALSE

\* line 204: get lastReadingActive().
LastReadingActiveAt(lr, t, intervalMs) ==
    IF lr # undefined THEN Get(lr).updateTimeMs > t - intervalMs ELSE FALSE

lastReadingActive == LastReadingActiveAt(lastReading, now, updateIntervalMs)

\* line 74: a falsy aqiInsteadOfDensity is false.
aqiInsteadOfDensity == config.aqiInsteadOfDensity

(* ------------------- the sensor and its responses --------------------- *)

\* A sensor record as the device or the cloud reports it: pm25 in tenths
\* of ug/m3; humidity, temperature and voc may be missing.
SensorRecords ==
    { [ pm25 |-> 123, humidity |-> Some(45), temperature |-> Some(21), voc |-> Some(5) ],
      [ pm25 |-> 50, humidity |-> Some(30), temperature |-> Some(0), voc |-> undefined ],
      [ pm25 |-> 50, humidity |-> undefined, temperature |-> Some(21), voc |-> undefined ] }

\* What axiosInstance.get(url) may end with: a network error (an
\* AxiosError without a response), a non-success status (an AxiosError
\* with a response), or a response whose data is the cloud envelope
\* (with or without a sensor record) or the local device's flat record.
ResponsesTo(req) ==
    { [ kind |-> "network", data |-> undefined ],
      [ kind |-> "httpStatus", data |-> undefined ] }
    \cup
    IF req.usesLocalSensor
    THEN { [ kind |-> "ok", data |-> Some(r) ] : r \in SensorRecords }
    ELSE { [ kind |-> "ok", data |-> Some([ sensor |-> Some(r) ]) ] : r \in SensorRecords }
         \cup { [ kind |-> "ok", data |-> Some([ sensor |-> undefined ]) ] }

\* densityToAqi on tenths of ug/m3: the first brackets of the EPA table.
DensityToAqi(pm25) ==
    IF pm25 <= 120 THEN (50 * pm25) \div 120
    ELSE IF pm25 <= 354 THEN 51 + (49 * (pm25 - 121)) \div 233
    ELSE 101 + (49 * (pm25 - 355)) \div 199

AqiToHomekit(aqi) ==
    IF aqi <= 50 THEN 1
    ELSE IF aqi <= 100 THEN 2
    ELSE IF aqi <= 150 THEN 3
    ELSE IF aqi <= 200 THEN 4
    ELSE 5

\* The record parsePurpleAirJson reads from the response data.
RecordOf(data, usesLocalSensor) ==
    IF usesLocalSensor THEN data ELSE Get(data.sensor)

\* parsePurpleAirJson throws on this data.
ParseThrows(data, usesLocalSensor) ==
    RecordOf(data, usesLocalSensor).humidity = undefined

\* parsePurpleAirJson(data, averages, conversion, usesLocalSensor), called
\* at time t on data it does not throw on.
parsePurpleAirJson(data, usesLocalSensor, t) ==
    LET r == RecordOf(data, usesLocalSensor) IN
    [ updateTimeMs |-> t,
      pm25 |-> r.pm25,
      aqi |-> DensityToAqi(r.pm25),
      airQualityHomekitReading |-> AqiToHomekit(DensityToAqi(r.pm25)),
      temperature |-> r.temperature,
      humidity |-> Get(r.humidity),
      voc |-> r.voc ]

\* obj.name in JavaScript: undefined when the object has no such property.
Field(obj, name) == IF name \in DOMAIN obj THEN obj[name] ELSE undefined

\* A sensor-record check made whatever the source.
MissingSensorAnySource(req, resp) ==
    Field(Get(resp.data), "sensor") = undefined

\* line 164: the response (one that carries data) has no sensor record.
MissingSensor(req, resp) ==
    ~req.usesLocalSensor /\ Field(Get(resp.data), "sensor") = undefined

\* lines 162-168: the try block throws (the awaited get rejects, the cloud
\* response has no sensor record, or the parser throws).
AttemptFails(req, resp) ==
    \/ resp.kind # "ok"
    \/ MissingSensor(req, resp)
    \/ ParseThrows(Get(resp.data), req.usesLocalSensor)

\* lines 162-168: the try block reaches the call of parsePurpleAirJson.
ParserInvoked(req, resp) ==
    resp.kind = "ok" /\ ~MissingSensor(req, resp)

\* lines 164-176: what the catch block is given: nothing, the rejection of
\* the get, the Error thrown for a missing sensor, or what the parser threw.
ErrorCaught(req, resp) ==
    IF resp.kind # "ok" THEN resp.kind
    ELSE IF MissingSensor(req, resp) THEN "No sensor found"
    ELSE IF ParseThrows(Get(resp.data), req.usesLocalSensor) THEN "parse"
    ELSE ""

\* An update() that copies the new fields into the cached reading, so that
\* a field the new reading lacks keeps its old value.
ReadingMergedOnSuccess(req, resp, t) ==
    LET new == parsePurpleAirJson(Get(resp.data), req.usesLocalSensor, t) IN
    IF lastReading # undefined /\ new.voc = undefined
    THEN Some([ new EXCEPT !.voc = Get(lastReading).voc ])
    ELSE Some(new)

\* line 168: the reading assigned to lastReading on success.
ReadingOnSuccess(req, resp, t) ==
    Some(parsePurpleAirJson(Get(resp.data), req.usesLocalSensor, t))

\* A catch block that leaves the cached reading in place.
ReadingKeptOnFailure(lr) == lr

\* line 177: the value assigned to lastReading in the catch block.
ReadingOnFailure(lr) == undefined

(* ---------------------------- updateHomeKit --------------------------- *)

\* JavaScript truthiness of an optional number.
Truthy(opt) == opt # undefined /\ Get(opt) # 0

NoHostValues ==
    [ AirQuality |-> undefined,
      PM2_5Density |-> undefined,
      CurrentTemperature |-> undefined,
      CurrentRelativeHumidity |-> undefined,
      VOCDensity |-> undefined ]

\* An updateHomeKit that resets the characteristics when no reading is cached.
UpdateHomeKitClearing(lr, h, aqiInstead) ==
    IF lr # undefined
    THEN LET r == Get(lr) IN
         [ AirQuality |-> Some(r.airQualityHomekitReading),
           PM2_5Density |-> IF aqiInstead THEN Some(r.aqi) ELSE Some(r.pm25),
           CurrentTemperature |->
               IF Truthy(r.temperature) THEN r.temperature ELSE h.CurrentTemperature,
           CurrentRelativeHumidity |-> Some(r.humidity),
           VOCDensity |-> IF Truthy(r.voc) THEN r.voc ELSE h.VOCDensity ]
    ELSE NoHostValues

\* An updateHomeKit that reads the reporting preference the wrong way round.
UpdateHomeKitSwapped(lr, h, aqiInstead) ==
    IF lr # undefined
    THEN LET r == Get(lr) IN
         [ AirQuality |-> Some(r.airQualityHomekitReading),
           PM2_5Density |-> IF aqiInstead THEN Some(r.pm25) ELSE Some(r.aqi),
           CurrentTemperature |->
               IF Truthy(r.temperature) THEN r.temperature ELSE h.CurrentTemperature,
           CurrentRelativeHumidity |-> Some(r.humidity),
           VOCDensity |-> IF Truthy(r.voc) THEN r.voc ELSE h.VOCDensity ]
    ELSE h

\* An updateHomeKit that reports the air quality as unknown (0) when no
\* reading is cached.
UpdateHomeKitUnknownWhenCleared(lr, h, aqiInstead) ==
    IF lr # undefined
    THEN LET r == Get(lr) IN
         [ AirQuality |-> Some(r.airQualityHomekitReading),
           PM2_5Density |-> IF aqiInstead THEN Some(r.aqi) ELSE Some(r.pm25),
           CurrentTemperature |->
               IF Truthy(r.temperature) THEN r.temperature ELSE h.CurrentTemperature,
           CurrentRelativeHumidity |-> Some(r.humidity),
           VOCDensity |-> IF Truthy(r.voc) THEN r.voc ELSE h.VOCDensity ]
    ELSE [ h EXCEPT !.AirQuality = Some(0) ]

\* lines 207-224: the characteristic values after updateHomeKit.
UpdateHomeKit(lr, h, aqiInstead) ==
    IF lr # undefined
    THEN LET r == Get(lr) IN
         [ AirQuality |-> Some(r.airQualityHomekitReading),
           PM2_5Density |-> IF aqiInstead THEN Some(r.aqi) ELSE Some(r.pm25),
           CurrentTemperature |->
               IF Truthy(r.temperature) THEN r.temperature ELSE h.CurrentTemperature,
           CurrentRelativeHumidity |-> Some(r.humidity),
           VOCDensity |-> IF Truthy(r.voc) THEN r.voc ELSE h.VOCDensity ]
    ELSE h

\* The number of setCharacteristic calls updateHomeKit makes.
SetCharacteristicCalls(lr) ==
    IF lr # undefined
    THEN 3 + (IF Truthy(Get(lr).temperature) THEN 1 ELSE 0)
           + (IF Truthy(Get(lr).voc) THEN 1 ELSE 0)
    ELSE 0

(* ------------------------------- events ------------------------------- *)

\* ev records the handler that ran last: which one, for a query the
\* service and the value its callback was given, whether update() was
\* called, whether that call issued a fetch, for a completion the response
\* it received, how often updateHomeKit ran and how many characteristics
\* it set; a completion also records whether parsePurpleAirJson was called
\* and what the catch block caught.
Event(op, service, updateCalled, fetched, answer, resp, homeKitCalls, setCalls) ==
    [ op |-> op, service |-> service, updateCalled |-> updateCalled,
      fetched |-> fetched, answer |-> answer, resp |-> resp,
      homeKitCalls |-> homeKitCalls, setCalls |-> setCalls ]

(* -------------------------------- clock ------------------------------- *)

\* A timestamp after the clock's origin has slid by shift.
Slide(t, shift) == Max(0, t - shift)

SlideReading(lr, shift) ==
    IF lr = undefined THEN lr
    ELSE Some([ Get(lr) EXCEPT !.updateTimeMs = Slide(@, shift) ])

\* line 114: setInterval(callback, updateIntervalMs), called at time t.
SetInterval(t, intervalMs) == Some(t + intervalMs)

\* The same timer after its callback had a one-shot timer been armed.
TimerOneShot(t, intervalMs) == undefined

\* lines 114-116: an interval timer is armed again when its callback has
\* run at time t.
TimerAfterTick(t, intervalMs) == Some(t + intervalMs)

(* ------------------------------- actions ------------------------------ *)

\* lines 129-162: update() up to its await.  Either the rate guard returns,
\* or the request is issued and the rest of update() waits for its response.
UpdateCall ==
    IF RateGuardSkips(lastReading, now)
    THEN UNCHANGED << inflight, lastFetchTime, latestPending, lastOutcome >>
    ELSE /\ Len(inflight) < MaxInFlight
         /\ inflight' = Append(inflight, RequestOf(config))
         /\ lastFetchTime' = Some(now)
         /\ latestPending' = TRUE
         /\ lastOutcome' = "pending"

\* A handler that calls update() whatever lastReading is.
QueryAlwaysUpdates(lr) == TRUE

\* lines 81, 91, 101: the GET handler calls update() only when a reading
\* is cached.
QueryCallsUpdate(lr) == lr # undefined

\* A handler that expects the fetch it has just issued to succeed.
OptimisticAnswer(lr, t, intervalMs, fetched) ==
    fetched \/ LastReadingActiveAt(lr, t, intervalMs)

\* line 83: the value the GET handler hands to its callback after update()
\* has returned its promise.
StatusActiveAnswer(lr, t, intervalMs, fetched) ==
    LastReadingActiveAt(lr, t, intervalMs)

\* lines 79-107: the StatusActive GET handler of one service.
Query(s) ==
    /\ IF QueryCallsUpdate(lastReading)
       THEN /\ UpdateCall
            /\ ev' = Event("query", s, TRUE, ~RateGuardSkips(lastReading, now),
                           Some(StatusActiveAnswer(lastReading, now, updateIntervalMs,
                                                   ~RateGuardSkips(lastReading, now))),
                           undefined, 0, 0)
       ELSE /\ UNCHANGED << inflight, lastFetchTime, latestPending, lastOutcome >>
            /\ ev' = Event("query", s, FALSE, FALSE, Some(FALSE), undefined, 0, 0)
    /\ UNCHANGED << config, now, lastReading, timer, host >>

\* lines 114-116: the setInterval callback.
Tick ==
    /\ timer # undefined
    /\ now >= Get(timer)
    /\ UpdateCall
    /\ timer' = TimerAfterTick(now, updateIntervalMs)
    /\ ev' = Event("tick", "", TRUE, ~RateGuardSkips(lastReading, now),
                   undefined, undefined, 0, 0)
    /\ UNCHANGED << config, now, lastReading, host >>

\* lines 162-179: the rest of update() once the i-th request in flight has
\* its response.
Complete(i, resp) ==
    /\ i \in 1..Len(inflight)
    /\ resp \in ResponsesTo(inflight[i])
    /\ inflight' = SubSeq(inflight, 1, i - 1) \o SubSeq(inflight, i + 1, Len(inflight))
    /\ lastReading' = IF AttemptFails(inflight[i], resp)
                      THEN ReadingOnFailure(lastReading)
                      ELSE ReadingOnSuccess(inflight[i], resp, now)
    /\ host' = UpdateHomeKit(lastReading', host, aqiInsteadOfDensity)
    /\ ev' = Event("complete", "", FALSE, FALSE, undefined, Some(resp),
                   1, SetCharacteristicCalls(lastReading'))
             @@ [ parsed |-> ParserInvoked(inflight[i], resp),
                  error |-> ErrorCaught(inflight[i], resp) ]
    /\ IF latestPending /\ i = Len(inflight)
       THEN /\ latestPending' = FALSE
            /\ lastOutcome' = IF AttemptFails(inflight[i], resp) THEN "failed" ELSE "ok"
       ELSE UNCHANGED << latestPending, lastOutcome >>
    /\ UNCHANGED << config, now, timer, lastFetchTime >>

\* Time passes, up to the moment the timer is due.
Advance ==
    /\ IF timer = undefined THEN TRUE ELSE now < Get(timer)
    /\ LET target == IF timer = undefined THEN now + ClockStepMs
                     ELSE Min(now + ClockStepMs, Get(timer))
           shift == Max(0, target - MaxTime)
       IN /\ now' = target - shift
          /\ lastReading' = SlideReading(lastReading, shift)
          /\ timer' = IF timer = undefined THEN timer ELSE Some(Get(timer) - shift)
          /\ lastFetchTime' = IF lastFetchTime = undefined THEN lastFetchTime
                              ELSE Some(Max(Slide(Get(lastFetchTime), shift),
                                            now' - MIN_UPDATE_INTERVAL_MS))
    /\ ev' = Event("advance", "", FALSE, FALSE, undefined, undefined, 0, 0)
    /\ UNCHANGED << config, inflight, host, latestPending, lastOutcome >>

\* lines 53-119: the state the constructor leaves: the interval timer is
\* armed and the first update() has issued its fetch.
InitFor(configs) ==
    /\ config \in configs
    /\ now = 0
    /\ lastReading = undefined
    /\ timer = SetInterval(0, UpdateIntervalMsOf(config))
    /\ inflight = << RequestOf(config) >>
    /\ host = NoHostValues
    /\ ev = Event("construct", "", TRUE, TRUE, undefined, undefined, 0, 0)
    /\ lastFetchTime = Some(0)
    /\ latestPending = TRUE
    /\ lastOutcome = "pending"

Init == InitFor(Configs)

Next ==
    \/ \E s \in Services : Query(s)
    \/ Tick
    \/ \E i \in 1..MaxInFlight : \E resp \in ResponsesTo(RequestOf(config)) : Complete(i, resp)
    \/ Advance

Spec == Init /\ [][Next]_vars

\* The constructor's states for a cloud sensor.
LiveInit == Init /\ config.localIPAddress = undefined

\* The same program (for a cloud sensor) when the timer fires whenever it is
\* due, time passes, and every request is answered or fails in the end
\* (MaxInFlight requests that never end would stop the model, not the
\* program, from issuing more).
LiveSpec ==
    /\ LiveInit
    /\ [][Next]_vars
    /\ WF_vars(Tick)
    /\ WF_vars(Advance)
    /\ WF_vars(\E i \in 1..MaxInFlight :
                 \E resp \in ResponsesTo(RequestOf(config)) : Complete(i, resp))

\* The constructor's states for every way of configuring the source.
SourceInit == InitFor(AllSourceConfigs)

\* The program under every configuration of its source.
SourceSpec == SourceInit /\ [][Next]_vars

(* ------------------------------- claims ------------------------------- *)

\* The age of the cached reading, for a state that has one.
ReadingAge == now - Get(lastReading).updateTimeMs

\* The last handler was an update() call from the timer or from a query.
UpdateInvoked(e) == e.op \in {"tick", "query"} /\ e.updateCalled

\* The response a completed attempt received makes it a failed attempt: a
\* network error, a non-success status, a cloud response without a sensor
\* record, or data the normalizer throws on.
FailedResponse(resp) ==
    \/ resp.kind = "network"
    \/ resp.kind = "httpStatus"
    \/ resp.kind = "ok" /\ config.localIPAddress = undefined
                        /\ Get(resp.data).sensor = undefined
    \/ resp.kind = "ok" /\ config.localIPAddress = undefined
                        /\ Get(resp.data).sensor # undefined
                        /\ Get(Get(resp.data).sensor).humidity = undefined
    \/ resp.kind = "ok" /\ config.localIPAddress # undefined
                        /\ Get(resp.data).humidity = undefined

\* C1: whenever update() is invoked by the timer or by a StatusActive query
\* while a reading is cached whose age is below MIN_UPDATE_INTERVAL_MS, the
\* attempt is skipped: no fetch is issued, lastReading is unchanged and
\* updateHomeKit is not called (no characteristic changes).
C1_RateGuardSkips ==
    [][ ( /\ UpdateInvoked(ev')
          /\ lastReading # undefined
          /\ ReadingAge < MIN_UPDATE_INTERVAL_MS )
        => ( /\ ~ev'.fetched
             /\ inflight' = inflight
             /\ lastReading' = lastReading
             /\ host' = host
             /\ ev'.homeKitCalls = 0 ) ]_vars

\* C1 witness: update() has just been invoked, from a query, on a reading
\* younger than the minimum spacing, and was skipped.
C1_Witness ==
    /\ ev.op = "query" /\ ev.updateCalled /\ ~ev.fetched
    /\ lastReading # undefined
    /\ ReadingAge < MIN_UPDATE_INTERVAL_MS
    /\ ReadingAge > 0

\* C2: no two fetches are ever issued less than MIN_UPDATE_INTERVAL_MS
\* apart: an update() invoked sooner than that after an earlier fetch was
\* issued, whatever became of that fetch, issues none.
C2_MinimumSpacing ==
    [][ ( /\ Len(inflight') > Len(inflight)
          /\ lastFetchTime # undefined )
        => now - Get(lastFetchTime) >= MIN_UPDATE_INTERVAL_MS ]_vars

\* C3: at most one fetch is in flight at any time.
C3_SingleFlight == Len(inflight) <= 1

\* C4: when a non-skipped attempt has just completed in failure, lastReading
\* is absent and lastReadingActive is false.
C4_FailureClears ==
    ( ev.op = "complete" /\ FailedResponse(Get(ev.resp)) )
    => ( lastReading = undefined /\ ~lastReadingActive )

\* C4 witness: an attempt has just failed after an earlier one had
\* succeeded (the host still shows that reading's air quality).
C4_Witness ==
    /\ ev.op = "complete" /\ FailedResponse(Get(ev.resp))
    /\ host.AirQuality # undefined
    /\ lastReading = undefined

\* C5: lastReadingActive is true exactly when a reading is cached and its
\* age is below updateIntervalMs, and that is the value a StatusActive
\* query that called update() is answered with.
C5_Freshness ==
    /\ lastReadingActive
         <=> ( lastReading # undefined /\ ReadingAge < updateIntervalMs )
    /\ ( ev.op = "query" /\ ev.updateCalled )
         => ( Get(ev.answer)
                <=> ( lastReading # undefined /\ ReadingAge < updateIntervalMs ) )

\* C5 witness: a query finds a reading whose age is exactly updateIntervalMs
\* and is answered false.
C5_Witness ==
    /\ ev.op = "query" /\ ev.answer = Some(FALSE)
    /\ lastReading # undefined
    /\ ReadingAge = updateIntervalMs

\* C6: whenever the most recently issued attempt has failed, the active
\* signal is false (and so stays false until a later-issued attempt
\* succeeds).
C6_FailedMeansInactive ==
    lastOutcome = "failed" => ~lastReadingActive

C8_EveryQueryUpdates ==
    ev.op = "query" => ev.updateCalled

\* C8 amended: a StatusActive query, on any of the three services, calls
\* update() exactly when a reading is cached, and that call issues a fetch
\* exactly when the rate guard lets it (the reading's age is
\* MIN_UPDATE_INTERVAL_MS or more); with no reading cached the query is
\* answered false and update() is not called.
C8_QueryUpdatesWhenCached ==
    ev.op = "query"
    => /\ ev.service \in Services
       /\ ev.updateCalled <=> lastReading # undefined
       /\ ev.fetched <=> ( lastReading # undefined
                           /\ ReadingAge >= MIN_UPDATE_INTERVAL_MS )
       /\ lastReading = undefined => ev.answer = Some(FALSE)

\* C8 witness: a query on the temperature service has called update(),
\* which issued a fetch.
C8_Witness ==
    /\ ev.op = "query" /\ ev.service = "temperatureService"
    /\ ev.updateCalled /\ ev.fetched
    /\ Len(inflight) >= 1

\* C9: a StatusActive query is answered from the reading cached when the
\* query arrives: in the very step of the query the callback has its value,
\* which is the freshness of that reading, while the fetch the query
\* issued is still in flight and lastReading is as it was.
C9_QueryDoesNotWait ==
    [][ ev'.op = "query"
        => /\ ev'.answer = Some(LastReadingActiveAt(lastReading, now, updateIntervalMs))
           /\ lastReading' = lastReading
           /\ ev'.fetched => inflight' = Append(inflight, RequestOf(config)) ]_vars

\* C9 witness: a query has been answered false (its reading is stale)
\* while the fetch it issued is in flight.
C9_Witness ==
    /\ ev.op = "query" /\ ev.fetched
    /\ ev.answer = Some(FALSE)
    /\ lastReading # undefined
    /\ latestPending

\* The characteristics show no reading.
HostShowsCleared == host = NoHostValues

\* The characteristics show reading r (the fields updateHomeKit always sets).
HostShows(h, r) ==
    /\ h.AirQuality = Some(r.airQualityHomekitReading)
    /\ h.CurrentRelativeHumidity = Some(r.humidity)
    /\ h.PM2_5Density = IF aqiInsteadOfDensity THEN Some(r.aqi) ELSE Some(r.pm25)

\* C10 as stated: every completion notifies the host once, with the new
\* reading on success and with a cleared signal on failure, after which
\* the host's surfaced state is that of the cleared reading.
C10_HostReflectsCompletion ==
    ev.op = "complete"
    => /\ ev.homeKitCalls = 1
       /\ IF FailedResponse(Get(ev.resp))
          THEN HostShowsCleared
          ELSE lastReading # undefined /\ HostShows(host, Get(lastReading))

\* C10 amended: every completion calls updateHomeKit once; on success it
\* sets the characteristics from the new reading; on failure it is called
\* with lastReading absent and sets no characteristic, so the host's
\* surfaced values stay as they were and only the active signal is false.
C10_HostNotifiedOnce ==
    [][ ev'.op = "complete"
        => /\ ev'.homeKitCalls = 1
           /\ IF FailedResponse(Get(ev'.resp))
              THEN /\ lastReading' = undefined
                   /\ ev'.setCalls = 0
                   /\ host' = host
                   /\ ~LastReadingActiveAt(lastReading', now', updateIntervalMs)
              ELSE /\ lastReading' # undefined
                   /\ ev'.setCalls >= 3
                   /\ HostShows(host', Get(lastReading')) ]_vars

\* C10 witness: an attempt has just failed and the host still shows the
\* values of an earlier reading.
C10_Witness ==
    /\ ev.op = "complete" /\ FailedResponse(Get(ev.resp))
    /\ ev.homeKitCalls = 1 /\ ev.setCalls = 0
    /\ lastReading = undefined
    /\ host.AirQuality # undefined /\ host.CurrentRelativeHumidity # undefined

\* The reading the normalizer makes of the response a completion received.
NormalizedReading(resp, t) ==
    parsePurpleAirJson(Get(resp.data), config.localIPAddress # undefined, t)

\* C11: when an attempt completes with a successful fetch and
\* normalization, lastReading is exactly the newly normalized reading,
\* whatever the reporting preference, and the host shows it: AirQuality is
\* its airQualityHomekitReading, humidity its humidity, and PM2_5Density
\* its aqi when aqiInsteadOfDensity is set and its pm25 otherwise.
C11_SuccessStoresAndShows ==
    [][ ( ev'.op = "complete" /\ ~FailedResponse(Get(ev'.resp)) )
        => LET r == NormalizedReading(Get(ev'.resp), now) IN
           /\ lastReading' = Some(r)
           /\ host'.AirQuality = Some(r.airQualityHomekitReading)
           /\ host'.CurrentRelativeHumidity = Some(r.humidity)
           /\ host'.PM2_5Density =
                IF config.aqiInsteadOfDensity THEN Some(r.aqi) ELSE Some(r.pm25) ]_vars

\* C11 witness: an attempt has succeeded with aqiInsteadOfDensity set; the
\* host's PM2_5Density is the reading's aqi, which differs from its pm25.
C11_Witness ==
    /\ ev.op = "complete" /\ ~FailedResponse(Get(ev.resp))
    /\ config.aqiInsteadOfDensity
    /\ lastReading # undefined
    /\ Get(lastReading).aqi # Get(lastReading).pm25
    /\ host.PM2_5Density = Some(Get(lastReading).aqi)
    /\ host.AirQuality = Some(Get(lastReading).airQualityHomekitReading)

\* C12: every request goes, when a local address is configured, to that
\* device's /json endpoint with neither the API-key header nor the read-key
\* parameter, and otherwise to the cloud path of the sensor id, with the
\* API key in the header exactly when configured and the read key as a
\* parameter exactly when configured.
C12_SourceSelection ==
    \A i \in 1..Len(inflight) :
        LET r == inflight[i] IN
        IF config.localIPAddress # undefined
        THEN /\ r.url = << "http://", Get(config.localIPAddress), "/json" >>
             /\ r.xApiKey = undefined
             /\ r.read_key = undefined
        ELSE /\ r.url = << "https://api.purpleair.com/v1/sensors", "/", config.sensor >>
             /\ r.xApiKey = config.apiReadKey
             /\ r.read_key = config.key

\* C13: a successful cloud response without a sensor record ends the
\* attempt as a missing-sensor failure: parsePurpleAirJson is not called,
\* the catch block is given the "No sensor found" error (not a parser
\* error) and lastReading is cleared with no characteristic set; a
\* successful local response always reaches the parser and never fails as
\* a missing sensor.
C13_MissingSensorIsFetchFailure ==
    ( ev.op = "complete" /\ Get(ev.resp).kind = "ok" )
    => IF config.localIPAddress = undefined
       THEN Get(Get(ev.resp).data).sensor = undefined
            => /\ ~ev.parsed
               /\ ev.error = "No sensor found"
               /\ lastReading = undefined
               /\ ev.setCalls = 0
       ELSE ev.parsed /\ ev.error # "No sensor found"

\* C13 witness: a cloud response without a sensor record has just ended an
\* attempt, after an earlier attempt had succeeded.
C13_Witness ==
    /\ ev.op = "complete" /\ Get(ev.resp).kind = "ok"
    /\ config.localIPAddress = undefined
    /\ Get(Get(ev.resp).data).sensor = undefined
    /\ ~ev.parsed
    /\ lastReading = undefined
    /\ host.AirQuality # undefined

\* C13 witness for the local source: a local response has reached the parser.
C13_LocalParsed ==
    /\ ev.op = "complete" /\ Get(ev.resp).kind = "ok"
    /\ config.localIPAddress # undefined
    /\ ev.parsed

\* The fields of a complete SensorReading.
ReadingFields ==
    { "updateTimeMs", "pm25", "aqi", "airQualityHomekitReading",
      "temperature", "humidity", "voc" }

\* Readings a and b (both present, or both absent) are one reading seen at
\* two times: equal field by field, the timestamp apart, and no younger at
\* the later time tb than at the earlier time ta.
SameReadingLater(a, ta, b, tb) ==
    IF a = undefined THEN b = undefined
    ELSE /\ b # undefined
         /\ [ Get(b) EXCEPT !.updateTimeMs = 0 ] = [ Get(a) EXCEPT !.updateTimeMs = 0 ]
         /\ tb - Get(b).updateTimeMs >= ta - Get(a).updateTimeMs

\* C14: lastReading is absent at construction; no query, timer tick or
\* passing of time changes it; only the completion of a non-skipped attempt
\* writes it, and what it writes is either absent or one complete new
\* reading, the one normalized from the response, which the host
\* notification that follows leaves as written.
C14_SingleSlotLifecycle ==
    /\ lastReading = undefined
    /\ [][ /\ ev'.op \in {"query", "tick"} => lastReading' = lastReading
           /\ ev'.op = "advance" => SameReadingLater(lastReading, now, lastReading', now')
           /\ ev'.op = "complete"
                => \/ lastReading' = undefined
                   \/ /\ lastReading' = Some(NormalizedReading(Get(ev'.resp), now))
                      /\ DOMAIN Get(lastReading') = ReadingFields ]_vars

\* C14 witness: a completion has replaced the cached reading by one
\* without a voc value, while the host still shows the voc of the reading
\* cached before.
C14_Witness ==
    /\ ev.op = "complete" /\ ~FailedResponse(Get(ev.resp))
    /\ lastReading # undefined
    /\ Get(lastReading).voc = undefined
    /\ host.VOCDensity # undefined

\* C15: once every attempt in flight has completed, lastReading is the
\* outcome of the most recently issued attempt: absent if that attempt
\* failed, a reading if it succeeded.
C15_IssueOrder ==
    ( Len(inflight) = 0 /\ lastOutcome # "pending" )
    => ( lastOutcome = "failed" <=> lastReading = undefined )

\* The last handler called update() and the rate guard skipped the attempt.
GuardSkipped == UpdateInvoked(ev) /\ ~ev.fetched

\* C16 as stated: whenever the rate guard skips an attempt the cached
\* reading is still active, for every configured interval.
C16_SkipImpliesActive ==
    GuardSkipped => lastReadingActive

\* C16 amended: whenever the rate guard skips an attempt a reading is
\* cached and younger than MIN_UPDATE_INTERVAL_MS, so it is still active
\* whenever the configured interval is at least MIN_UPDATE_INTERVAL_MS.
C16_SkipImpliesActiveAboveMinimum ==
    GuardSkipped
    => /\ lastReading # undefined
       /\ ReadingAge < MIN_UPDATE_INTERVAL_MS
       /\ updateIntervalMs >= MIN_UPDATE_INTERVAL_MS => lastReadingActive

\* C16 witness: the timer's update() has been skipped on a reading that is
\* not brand new, under an interval above the minimum; the reading is active.
C16_Witness ==
    /\ ev.op = "tick" /\ GuardSkipped
    /\ updateIntervalMs >= MIN_UPDATE_INTERVAL_MS
    /\ lastReading # undefined
    /\ ReadingAge > 0
    /\ lastReadingActive

\* C17: a failed attempt leaves every characteristic (AirQuality,
\* PM2_5Density, CurrentTemperature, CurrentRelativeHumidity, VOCDensity)
\* as it was, while the active signal is false: a StatusActive query made
\* with no reading cached is answered false and changes no characteristic
\* either.
C17_FailureKeepsHostValues ==
    [][ /\ ( ev'.op = "complete" /\ FailedResponse(Get(ev'.resp)) )
             => /\ host'.AirQuality = host.AirQuality
                /\ host'.PM2_5Density = host.PM2_5Density
                /\ host'.CurrentTemperature = host.CurrentTemperature
                /\ host'.CurrentRelativeHumidity = host.CurrentRelativeHumidity
                /\ host'.VOCDensity = host.VOCDensity
                /\ ~LastReadingActiveAt(lastReading', now', updateIntervalMs)
        /\ ( ev'.op = "query" /\ lastReading = undefined )
             => ( ev'.answer = Some(FALSE) /\ host' = host ) ]_vars

\* C17 witness: a query is answered false, no reading being cached, while
\* the host shows all five values of earlier readings.
C17_Witness ==
    /\ ev.op = "query" /\ ev.answer = Some(FALSE)
    /\ lastReading = undefined
    /\ host.AirQuality # undefined
    /\ host.PM2_5Density # undefined
    /\ host.CurrentTemperature # undefined
    /\ host.CurrentRelativeHumidity # undefined
    /\ host.VOCDensity # undefined

\* C18: after a successful attempt whose reading carries a temperature
\* (a voc value), whatever the value, the host's CurrentTemperature
\* (VOCDensity) is that value.
C18_OptionalValuesShown ==
    ( ev.op = "complete" /\ ~FailedResponse(Get(ev.resp)) /\ lastReading # undefined )
    => /\ Get(lastReading).temperature # undefined
            => host.CurrentTemperature = Get(lastReading).temperature
       /\ Get(lastReading).voc # undefined
            => host.VOCDensity = Get(lastReading).voc

====
